---------------------------- MODULE Spec2Model ----------------------------
(***************************************************************************)
(* A model of the VaC_Rust front end: Lexer::tokenize (src/lexer.rs) and   *)
(* the recursive-descent Parser (src/parser.rs), driven as main does       *)
(* (src/main.rs): Lexer::new, Parser::new (which tokenizes), parse().      *)
(*                                                                         *)
(* A character is a one-element token of the alphabet, written as a        *)
(* string; a Rust String / &str is a sequence of characters.  Two          *)
(* characters outside ASCII are named by their code point.  Positions of   *)
(* the lexer are byte offsets, as in the source; the parser's position is  *)
(* a zero-based index into its token vector.                               *)
(***************************************************************************)
EXTENDS Integers, Sequences, FiniteSets, TLC

VARIABLES
    input,            \* Lexer.input
    lexer_position,   \* Lexer.position (a byte offset)
    lexer_tokens,     \* the local `tokens` of Lexer::tokenize
    tokens,           \* Parser.tokens
    parser_position,  \* Parser.position
    stack,            \* the call stack of the parser's methods, top last
    ret,              \* the value the last returning parser method returned
    ast,              \* what parse() returned to its caller
    pc,               \* where the driver is
    panic,            \* the payload of the panic that ended the run
    calls             \* how many times parse() was called

vars == <<input, lexer_position, lexer_tokens, tokens, parser_position,
          stack, ret, ast, pc, panic, calls>>

-----------------------------------------------------------------------------
(* Bounds of the model. *)

MaxChunks == 3

MaxParseCalls == 2

-----------------------------------------------------------------------------
(* Characters. *)

SPACE == " "
TAB == "\t"
NEWLINE == "\n"

\* U+00E9 (e with acute): alphanumeric, not ASCII, two bytes in UTF-8.
E_ACUTE == "U+00E9"

AsciiDigits == {"0", "1", "2", "3", "4", "5", "6", "7", "8", "9"}

AsciiLetters ==
    {"a", "b", "c", "d", "e", "f", "g", "h", "i", "j", "k", "l", "m",
     "n", "o", "p", "q", "r", "s", "t", "u", "v", "w", "x", "y", "z",
     "A", "B", "C", "D", "E", "F", "G", "H", "I", "J", "K", "L", "M",
     "N", "O", "P", "Q", "R", "S", "T", "U", "V", "W", "X", "Y", "Z"}

WhitespaceChars == {SPACE, TAB, NEWLINE}

OperatorChars == {"+", "-", "*", "/"}

DelimiterChars == {"(", ")", "{", "}", ",", ";"}

\* char::len_utf8
len_utf8(c) == IF c = E_ACUTE THEN 2 ELSE 1

\* char::is_digit(10): the ASCII digits only
is_digit(c) == c \in AsciiDigits

\* char::is_alphanumeric: Unicode Alphabetic or Numeric
is_alphanumeric(c) == c \in AsciiLetters \cup AsciiDigits \cup {E_ACUTE}

\* the value of an ASCII digit
DigitValue(c) ==
    CASE c = "0" -> 0 [] c = "1" -> 1 [] c = "2" -> 2 [] c = "3" -> 3
      [] c = "4" -> 4 [] c = "5" -> 5 [] c = "6" -> 6 [] c = "7" -> 7
      [] c = "8" -> 8 [] c = "9" -> 9

-----------------------------------------------------------------------------
(* Strings as sequences of characters, addressed by byte offsets. *)

\* the length in bytes of the characters lo..hi of s (summed by halves)
ByteLenRange(s, lo, hi) ==
    LET sum[l \in Nat, h \in Nat] ==
            IF l > h THEN 0
            ELSE IF l = h THEN len_utf8(s[l])
            ELSE sum[l, (l + h) \div 2] + sum[(l + h) \div 2 + 1, h]
    IN  sum[lo, hi]

\* the length in bytes of the first i characters of s
ByteLenTo(s, i) == ByteLenRange(s, 1, i)

\* str::len: the length in bytes
ByteLen(s) == ByteLenTo(s, Len(s))

\* the 1-based index, among lo..hi, of the character of s that starts at
\* byte offset pos (found by bisection); 0 if there is none
CharIndexIn(s, lo, hi, pos) ==
    LET find[l \in Nat, h \in Nat] ==
            IF l > h THEN 0
            ELSE LET mid == (l + h) \div 2
                     off == ByteLenTo(s, mid - 1)
                 IN  IF off = pos THEN mid
                     ELSE IF off < pos THEN find[mid + 1, h]
                     ELSE find[l, mid - 1]
    IN  find[lo, hi]

CharIndexAt(s, pos) == CharIndexIn(s, 1, Len(s), pos)

-----------------------------------------------------------------------------
(* Tokens. *)

Token(type, value) == [token_type |-> type, value |-> value]

EOFToken == Token("EOF", <<>>)

kw_function == <<"f", "u", "n", "c", "t", "i", "o", "n">>
kw_if == <<"i", "f">>

-----------------------------------------------------------------------------
(* The lexer's methods, as functions of (input, position). *)

NoChar == "None"

\* Lexer::next_char: the character at the position, None at the end
next_char(s, pos) ==
    LET i == CharIndexAt(s, pos)
    IN  IF i = 0 THEN NoChar ELSE s[i]

\* a consume_char that stays where it is on a tab
consume_char_but_tab(s, pos) ==
    LET c == next_char(s, pos)
    IN  pos + (IF c = NoChar \/ c = TAB THEN 0 ELSE len_utf8(c))

\* Lexer::consume_char: the position after the character at pos
consume_char(s, pos) ==
    LET c == next_char(s, pos)
    IN  pos + (IF c = NoChar THEN 0 ELSE len_utf8(c))

\* the index of the first character from the i-th on that is no digit
DigitRunEnd(s, i) ==
    LET scan[k \in Nat] ==
            IF k <= Len(s) /\ is_digit(s[k]) THEN scan[k + 1] ELSE k
    IN  scan[i]

\* the index of the first character from the i-th on that is not alphanumeric
AlnumRunEnd(s, i) ==
    LET scan[k \in Nat] ==
            IF k <= Len(s) /\ is_alphanumeric(s[k]) THEN scan[k + 1] ELSE k
    IN  scan[i]

\* a tokenize_number that takes the first digit only
tokenize_number_one_digit(s, pos) ==
    [token |-> Token("Number", <<next_char(s, pos)>>),
     position |-> consume_char(s, pos)]

\* Lexer::tokenize_number: the token and the position after it.  The
\* while loop stops at the first character that is no digit; the text is
\* the slice from the start to there
tokenize_number(s, pos) ==
    LET i == CharIndexAt(s, pos)
        j == DigitRunEnd(s, i)
    IN  [token |-> Token("Number", SubSeq(s, i, j - 1)),
         position |-> ByteLenTo(s, j - 1)]

\* a classification by the start of the text instead of the whole of it
IdentifierTypeByPrefix(value) ==
    IF \/ Len(value) >= 8 /\ SubSeq(value, 1, 8) = kw_function
       \/ Len(value) >= 2 /\ SubSeq(value, 1, 2) = kw_if
    THEN "Keyword" ELSE "Identifier"

\* the classification at the end of tokenize_identifier
IdentifierType(value) ==
    IF value = kw_function \/ value = kw_if THEN "Keyword" ELSE "Identifier"

\* Lexer::tokenize_identifier
tokenize_identifier(s, pos) ==
    LET i == CharIndexAt(s, pos)
        j == AlnumRunEnd(s, i)
        value == SubSeq(s, i, j - 1)
    IN  [token |-> Token(IdentifierType(value), value),
         position |-> ByteLenTo(s, j - 1)]

\* Lexer::tokenize_operator
tokenize_operator(s, pos, c) ==
    [token |-> Token("Operator", <<c>>), position |-> consume_char(s, pos)]

\* a tokenize_delimiter that leaves the text of the token empty
tokenize_delimiter_without_text(s, pos, c) ==
    [token |-> Token("Delimiter", <<>>), position |-> consume_char(s, pos)]

\* Lexer::tokenize_delimiter
tokenize_delimiter(s, pos, c) ==
    [token |-> Token("Delimiter", <<c>>), position |-> consume_char(s, pos)]


NoToken == Token("", <<>>)

Arm(arm, r) == [arm |-> arm, token |-> r.token, position |-> r.position]

\* a match with an arm that takes `=` as an operator
TokenizeArmWithAssign(s, pos) ==
    LET c == next_char(s, pos)
    IN  CASE c \in WhitespaceChars ->
               Arm("whitespace", [token |-> NoToken, position |-> consume_char(s, pos)])
          [] c \in AsciiDigits -> Arm("number", tokenize_number(s, pos))
          [] c \in AsciiLetters -> Arm("identifier", tokenize_identifier(s, pos))
          [] c \in OperatorChars \cup {"="} ->
               Arm("operator", tokenize_operator(s, pos, c))
          [] c \in DelimiterChars -> Arm("delimiter", tokenize_delimiter(s, pos, c))
          [] OTHER -> Arm("panic", [token |-> NoToken, position |-> pos])

\* a match whose first arm leaves the tab out
TokenizeArmWithoutTab(s, pos) ==
    LET c == next_char(s, pos)
    IN  CASE c \in WhitespaceChars \ {TAB} ->
               Arm("whitespace", [token |-> NoToken, position |-> consume_char(s, pos)])
          [] c \in AsciiDigits -> Arm("number", tokenize_number(s, pos))
          [] c \in AsciiLetters -> Arm("identifier", tokenize_identifier(s, pos))
          [] c \in OperatorChars -> Arm("operator", tokenize_operator(s, pos, c))
          [] c \in DelimiterChars -> Arm("delimiter", tokenize_delimiter(s, pos, c))
          [] OTHER -> Arm("panic", [token |-> NoToken, position |-> pos])

\* one turn of the match of Lexer::tokenize on the character at pos
TokenizeArm(s, pos) ==
    LET c == next_char(s, pos)
    IN  CASE c \in WhitespaceChars ->
               Arm("whitespace", [token |-> NoToken, position |-> consume_char(s, pos)])
          [] c \in AsciiDigits -> Arm("number", tokenize_number(s, pos))
          [] c \in AsciiLetters -> Arm("identifier", tokenize_identifier(s, pos))
          [] c \in OperatorChars -> Arm("operator", tokenize_operator(s, pos, c))
          [] c \in DelimiterChars -> Arm("delimiter", tokenize_delimiter(s, pos, c))
          [] OTHER -> Arm("panic", [token |-> NoToken, position |-> pos])

RECURSIVE TokenizeFrom(_, _, _)
\* the loop of Lexer::tokenize from pos on, with the tokens pushed so far:
\* the vector returned, or no vector when the scan panics
TokenizeFrom(s, pos, toks) ==
    IF ~(pos < ByteLen(s)) THEN [ok |-> TRUE, tokens |-> Append(toks, EOFToken)]
    ELSE LET a == TokenizeArm(s, pos)
         IN  CASE a.arm = "panic" -> [ok |-> FALSE, tokens |-> <<>>]
               [] a.arm = "whitespace" -> TokenizeFrom(s, a.position, toks)
               [] OTHER -> TokenizeFrom(s, a.position, Append(toks, a.token))

\* Lexer::new(s).tokenize()
tokenize(s) == TokenizeFrom(s, 0, <<>>)

-----------------------------------------------------------------------------
(* Panics. *)

Panic(fn, msg, ch, token) == [fn |-> fn, msg |-> msg, ch |-> ch, token |-> token]

NoPanic == Panic("", "", "", NoToken)

-----------------------------------------------------------------------------
(* Source texts. *)

RECURSIVE Spaces(_)
Spaces(n) == IF n = 0 THEN <<>> ELSE <<SPACE>> \o Spaces(n - 1)

id_startEngine == <<"s", "t", "a", "r", "t", "E", "n", "g", "i", "n", "e">>
id_speed == <<"s", "p", "e", "e", "d">>
id_applyBrakes == <<"a", "p", "p", "l", "y", "B", "r", "a", "k", "e", "s">>

\* the text `code` of main
MainCode ==
    <<NEWLINE>>
    \o Spaces(8) \o kw_function \o <<SPACE>> \o id_startEngine
        \o <<"(", ")", SPACE, "{", NEWLINE>>
    \o Spaces(12) \o id_speed \o <<SPACE, "=", SPACE, "1", "0", "0", ";", NEWLINE>>
    \o Spaces(12) \o kw_if \o <<SPACE, "(">> \o id_speed
        \o <<SPACE, ">", SPACE, "6", "0", ")", SPACE, "{", NEWLINE>>
    \o Spaces(16) \o id_applyBrakes \o <<"(", ")", ";", NEWLINE>>
    \o Spaces(12) \o <<"}", NEWLINE>>
    \o Spaces(8) \o <<"}", NEWLINE>>
    \o Spaces(4)

\* x = 1+2+3;
AssignSrc == <<"x", SPACE, "=", SPACE, "1", "+", "2", "+", "3", ";">>

\* the pieces the generated source texts are put together from
Chunks ==
    {kw_function, kw_if, <<"f">>, <<"1">>, <<"+">>,
     <<"(">>, <<")">>, <<",">>, <<";">>, <<"}">>,
     <<SPACE>>, <<TAB>>, <<NEWLINE>>,
     <<"$">>, <<"=">>, <<E_ACUTE>>}

RECURSIVE ChunkTexts(_)
\* every concatenation of at most n chunks
ChunkTexts(n) ==
    IF n = 0 THEN {<<>>}
    ELSE ChunkTexts(n - 1) \cup {p \o c : p \in ChunkTexts(n - 1), c \in Chunks}

\* function f(a, b) { x + 1; if (x) { y , (1 + 2) * z; } }
NestedSrc ==
    <<"f", "u", "n", "c", "t", "i", "o", "n", SPACE, "f", "(", "a", ",",
      SPACE, "b", ")", SPACE, "{", SPACE, "x", SPACE, "+", SPACE, "1", ";",
      SPACE, "i", "f", SPACE, "(", "x", ")", SPACE, "{", SPACE, "y", SPACE,
      ",", SPACE, "(", "1", SPACE, "+", SPACE, "2", ")", SPACE, "*", SPACE,
      "z", ";", SPACE, "}", SPACE, "}">>

\* function f(1
StrayParamSrc ==
    <<"f", "u", "n", "c", "t", "i", "o", "n", SPACE, "f", "(", "1">>

\* function f(+
StrayOperatorSrc == kw_function \o <<SPACE, "f", "(", "+">>

\* function f({
StrayBraceSrc == kw_function \o <<SPACE, "f", "(", "{">>

\* function f(if
StrayKeywordSrc == kw_function \o <<SPACE, "f", "(">> \o kw_if

\* function f(
StrayEOFSrc == kw_function \o <<SPACE, "f", "(">>

\* function f(a 1
StrayAfterNameSrc == kw_function \o <<SPACE, "f", "(", "a", SPACE, "1">>

\* function f() { x + 1;
UnclosedFunctionSrc ==
    kw_function \o <<SPACE, "f", "(", ")", SPACE, "{", SPACE, "x", SPACE, "+",
                     SPACE, "1", ";">>

\* if (x) {
UnclosedIfSrc == kw_if \o <<SPACE, "(", "x", ")", SPACE, "{">>

\* x + 1; }
StrayCloseSrc == <<"x", SPACE, "+", SPACE, "1", ";", SPACE, "}">>

\* f<U+00E9> + 1;
AccentSrc == <<"f", E_ACUTE, SPACE, "+", SPACE, "1", ";">>

\* x + 4294967297;
WrapSrc ==
    <<"x", SPACE, "+", SPACE, "4", "2", "9", "4", "9", "6", "7", "2", "9", "7", ";">>

\* x + 0002147483647;
ZerosMaxSrc ==
    <<"x", SPACE, "+", SPACE, "0", "0", "0", "2", "1", "4", "7", "4", "8", "3",
      "6", "4", "7", ";">>

\* x + 0;
ZeroSrc == <<"x", SPACE, "+", SPACE, "0", ";">>

\* x + 1
NoSemicolonSrc ==
    <<"x", SPACE, "+", SPACE, "1">>

\* x + 2147483648;
OverflowSrc ==
    <<"x", SPACE, "+", SPACE, "2", "1", "4", "7", "4", "8", "3", "6", "4",
      "8", ";">>

\* x + 2147483647;
MaxIntSrc ==
    <<"x", SPACE, "+", SPACE, "2", "1", "4", "7", "4", "8", "3", "6", "4",
      "7", ";">>

\* x + 007;
LeadingZerosSrc ==
    <<"x", SPACE, "+", SPACE, "0", "0", "7", ";">>

\* x + 1+2+3;
RightNestedSrc ==
    <<"x", SPACE, "+", SPACE, "1", "+", "2", "+", "3", ";">>

\* x , 1*2+3;
NoPrecedenceSrc ==
    <<"x", SPACE, ",", SPACE, "1", "*", "2", "+", "3", ";">>

\* x , (1+2)+3;
ParenSrc ==
    <<"x", SPACE, ",", SPACE, "(", "1", "+", "2", ")", "+", "3", ";">>

\* functionX
FunctionXSrc ==
    <<"f", "u", "n", "c", "t", "i", "o", "n", "X">>

\* iff
IffSrc ==
    <<"i", "f", "f">>

\* if1
If1Src ==
    <<"i", "f", "1">>

\* a$b
DollarSrc ==
    <<"a", "$", "b">>

\* a  b
TwoSpacesSrc ==
    <<"a", SPACE, SPACE, "b">>

\* a b
OneSpaceSrc ==
    <<"a", SPACE, "b">>

\* 1234567890
DigitsSrc ==
    <<"1", "2", "3", "4", "5", "6", "7", "8", "9", "0">>

\* x + 1; y + 2; $
LateDollarSrc ==
    <<"x", SPACE, "+", SPACE, "1", ";", SPACE, "y", SPACE, "+", SPACE, "2",
      ";", SPACE, "$">>

\* longer programs, well-formed and not
Programs ==
    {MainCode, AssignSrc, NestedSrc, StrayParamSrc,
     NoSemicolonSrc, OverflowSrc, MaxIntSrc, LeadingZerosSrc,
     RightNestedSrc, NoPrecedenceSrc, ParenSrc, FunctionXSrc,
     IffSrc, If1Src, DollarSrc, TwoSpacesSrc,
     OneSpaceSrc, DigitsSrc, LateDollarSrc,
     StrayOperatorSrc, StrayBraceSrc, StrayKeywordSrc, StrayEOFSrc,
     StrayAfterNameSrc, UnclosedFunctionSrc, UnclosedIfSrc, StrayCloseSrc,
     AccentSrc, WrapSrc, ZerosMaxSrc, ZeroSrc}

\* tokens put where the assignment rule expects '=' and ';'
AssignT == {<<"+">>, <<"*">>, <<",">>, <<"(">>, <<";">>, <<"7">>, <<"y">>, kw_if}
AssignU == {<<";">>, <<")">>, <<"}">>, <<",">>, <<"9">>, <<"z">>, kw_function}

\* x T 1+2 U
AssignVariantSrc(T, U) ==
    <<"x", SPACE>> \o T \o <<SPACE, "1", "+", "2", SPACE>> \o U

AssignVariants == {AssignVariantSrc(T, U) : T \in AssignT, U \in AssignU}

\* the longest chain of operands and operators tried
MaxOperands == 3

\* the operands of the chains: a Number and an Identifier
ChainOperands == {<<"1">>, <<"a">>}

\* chains t1 op1 t2 ... tn of n operands: the operands and the operators
Chains ==
    UNION {[terms : [1..n -> ChainOperands], ops : [1..(n - 1) -> OperatorChars]] :
              n \in 1..MaxOperands}

RECURSIVE ChainText(_, _)
\* the text t_i op_i t_(i+1) ... t_n of a chain
ChainText(ch, i) ==
    IF i = Len(ch.terms) THEN ch.terms[i]
    ELSE ch.terms[i] \o <<ch.ops[i]>> \o ChainText(ch, i + 1)

\* x , t1 op1 t2 ... tn;
ChainSrc(ch) == <<"x", SPACE, ",", SPACE>> \o ChainText(ch, 1) \o <<";">>

ChainSrcs == {ChainSrc(ch) : ch \in Chains}

Inputs == ChunkTexts(MaxChunks) \cup Programs \cup AssignVariants \cup ChainSrcs

-----------------------------------------------------------------------------
(* The run: main constructs the lexer and the parser, and calls parse(). *)

\* Lexer::new, and Parser::new up to its call of tokenize
Init ==
    /\ input \in Inputs
    /\ lexer_position = 0
    /\ lexer_tokens = <<>>
    /\ tokens = <<>>
    /\ parser_position = 0
    /\ stack = <<>>
    /\ ret = <<>>
    /\ ast = <<>>
    /\ pc = "tokenize"
    /\ panic = NoPanic
    /\ calls = 0

InTokenizeLoop == pc = "tokenize" /\ lexer_position < ByteLen(input)

ParserUnchanged == UNCHANGED <<tokens, parser_position, stack, ret, ast, calls>>

\* the arm ' ' | '\t' | '\n'
TokenizeWhitespace ==
    /\ InTokenizeLoop
    /\ LET a == TokenizeArm(input, lexer_position)
       IN  /\ a.arm = "whitespace"
           /\ lexer_position' = a.position
    /\ UNCHANGED <<input, lexer_tokens, pc, panic>>
    /\ ParserUnchanged

\* the arm '0'..='9'
TokenizeNumber ==
    /\ InTokenizeLoop
    /\ LET a == TokenizeArm(input, lexer_position)
       IN  /\ a.arm = "number"
           /\ lexer_tokens' = Append(lexer_tokens, a.token)
           /\ lexer_position' = a.position
    /\ UNCHANGED <<input, pc, panic>>
    /\ ParserUnchanged

\* the arm 'a'..='z' | 'A'..='Z'
TokenizeIdentifier ==
    /\ InTokenizeLoop
    /\ LET a == TokenizeArm(input, lexer_position)
       IN  /\ a.arm = "identifier"
           /\ lexer_tokens' = Append(lexer_tokens, a.token)
           /\ lexer_position' = a.position
    /\ UNCHANGED <<input, pc, panic>>
    /\ ParserUnchanged

\* the arm '+' | '-' | '*' | '/'
TokenizeOperator ==
    /\ InTokenizeLoop
    /\ LET a == TokenizeArm(input, lexer_position)
       IN  /\ a.arm = "operator"
           /\ lexer_tokens' = Append(lexer_tokens, a.token)
           /\ lexer_position' = a.position
    /\ UNCHANGED <<input, pc, panic>>
    /\ ParserUnchanged

\* the arm '(' | ')' | '{' | '}' | ',' | ';'
TokenizeDelimiter ==
    /\ InTokenizeLoop
    /\ LET a == TokenizeArm(input, lexer_position)
       IN  /\ a.arm = "delimiter"
           /\ lexer_tokens' = Append(lexer_tokens, a.token)
           /\ lexer_position' = a.position
    /\ UNCHANGED <<input, pc, panic>>
    /\ ParserUnchanged

\* a last arm that skips the character instead of panicking
TokenizeUnexpectedSkips ==
    /\ InTokenizeLoop
    /\ TokenizeArm(input, lexer_position).arm = "panic"
    /\ lexer_position' = consume_char(input, lexer_position)
    /\ UNCHANGED <<input, lexer_tokens, pc, panic>>
    /\ ParserUnchanged

\* the arm _ => panic!: the unwinding drops the local tokens and the parser
TokenizeUnexpected ==
    /\ InTokenizeLoop
    /\ TokenizeArm(input, lexer_position).arm = "panic"
    /\ panic' = Panic("tokenize", "Unexpected character",
                      next_char(input, lexer_position), NoToken)
    /\ pc' = "panicked"
    /\ lexer_tokens' = <<>>
    /\ UNCHANGED <<input, lexer_position>>
    /\ ParserUnchanged

\* an end of the loop that returns without pushing EOF
TokenizeReturnWithoutEOF ==
    /\ pc = "tokenize"
    /\ ~(lexer_position < ByteLen(input))
    /\ tokens' = lexer_tokens
    /\ lexer_tokens' = <<>>
    /\ pc' = "ready"
    /\ UNCHANGED <<input, lexer_position, parser_position, stack, ret, ast, panic, calls>>

\* the end of the loop: push EOF and return; Parser::new stores the result
TokenizeReturn ==
    /\ pc = "tokenize"
    /\ ~(lexer_position < ByteLen(input))
    /\ tokens' = Append(lexer_tokens, EOFToken)
    /\ lexer_tokens' = <<>>
    /\ pc' = "ready"
    /\ UNCHANGED <<input, lexer_position, parser_position, stack, ret, ast, panic, calls>>

Tokenize ==
    \/ TokenizeWhitespace
    \/ TokenizeNumber
    \/ TokenizeIdentifier
    \/ TokenizeOperator
    \/ TokenizeDelimiter
    \/ TokenizeUnexpected
    \/ TokenizeReturn

-----------------------------------------------------------------------------
(* The syntax tree. *)

NumberLiteral(n) == <<"NumberLiteral", n>>
Variable(name) == <<"Variable", name>>
Binary(left, op, right) == <<"Binary", left, op, right>>

Assignment(name, value) == <<"Assignment", name, value>>
FunctionDeclaration(name, params, body) == <<"FunctionDeclaration", name, params, body>>
If(condition, body) == <<"If", condition, body>>

\* i32::MAX
I32_MAX == 2147483647

RECURSIVE ParseDigits(_, _, _)
\* the accumulation of str::parse::<i32> over the digits from the i-th on:
\* the value, or -1 once a step would pass i32::MAX (PosOverflow)
ParseDigits(text, i, acc) ==
    IF i > Len(text) THEN acc
    ELSE LET d == DigitValue(text[i])
         IN  IF acc > (I32_MAX - d) \div 10 THEN -1
             ELSE ParseDigits(text, i + 1, acc * 10 + d)

\* a parse that saturates at i32::MAX instead of failing
parse_i32_saturating(text) ==
    LET v == ParseDigits(text, 1, 0)
    IN  [ok |-> TRUE, value |-> IF v < 0 THEN I32_MAX ELSE v]

\* value.parse::<i32>() of the text of a Number token
parse_i32(text) ==
    LET v == ParseDigits(text, 1, 0)
    IN  [ok |-> v >= 0, value |-> v]

-----------------------------------------------------------------------------
(* The parser's methods, one frame of the stack per call.  A frame holds   *)
(* the method, the source line it is at, whether it waits for a callee to  *)
(* return, and its locals.                                                 *)

Frame(fn, line) ==
    [fn |-> fn, line |-> line, wait |-> FALSE,
     name |-> <<>>, params |-> <<>>, stmts |-> <<>>, expr |-> <<>>, op |-> <<>>]

Top == stack[Len(stack)]

SetTop(f) == [stack EXCEPT ![Len(stack)] = f]

Pop == SubSeq(stack, 1, Len(stack) - 1)

\* the top frame is about to run `line` of `fn`
At(fn, line) ==
    pc = "parse" /\ stack # <<>> /\ Top.fn = fn /\ Top.line = line /\ ~Top.wait

\* the call the top frame made at `line` of `fn` has returned
Resumed(fn, line) ==
    pc = "parse" /\ stack # <<>> /\ Top.fn = fn /\ Top.line = line /\ Top.wait

\* the index of Parser::current_token is in range
InRange == parser_position < Len(tokens)

\* Parser::current_token
current_token == tokens[parser_position + 1]

\* a consume_token that moves the cursor by two
consume_token_by_two == [token |-> current_token, position |-> parser_position + 2]

\* Parser::consume_token: the token returned and the position left
consume_token == [token |-> current_token, position |-> parser_position + 1]

IsDelimiter(token, c) == token.token_type = "Delimiter" /\ token.value = <<c>>

IsKeyword(token, word) == token.token_type = "Keyword" /\ token.value = word

\* what no step of the parser changes
Frozen == UNCHANGED <<input, lexer_position, lexer_tokens, tokens, calls>>

\* go on at `line` of the same method
Goto(line) == stack' = SetTop([Top EXCEPT !.line = line, !.wait = FALSE])

\* call `callee`, which starts at `entry`; the caller waits at its line
Call(callee, entry) ==
    /\ stack' = Append(SetTop([Top EXCEPT !.wait = TRUE]), Frame(callee, entry))
    /\ UNCHANGED <<parser_position, ret, ast, pc, panic>>

\* return `value` to the caller
Return(value) ==
    /\ stack' = Pop
    /\ ret' = value
    /\ UNCHANGED <<ast, pc, panic>>

\* a statement self.consume_token(); that goes on at `line`
ConsumeGoto(line) ==
    /\ InRange
    /\ parser_position' = consume_token.position
    /\ Goto(line)
    /\ UNCHANGED <<ret, ast, pc, panic>>

\* panic!: the run ends, the stack unwinds
PanicWith(p) ==
    /\ pc' = "panicked"
    /\ panic' = p
    /\ stack' = <<>>
    /\ UNCHANGED <<ret, ast>>

UnexpectedToken(fn) == Panic(fn, "Unexpected token", "", current_token)

\* a call of parse() that starts again at the first token
parse_call_rewinds ==
    /\ pc \in {"ready", "returned"}
    /\ calls < MaxParseCalls
    /\ calls' = calls + 1
    /\ pc' = "parse"
    /\ stack' = <<Frame("parse", 36)>>
    /\ parser_position' = 0
    /\ UNCHANGED <<input, lexer_position, lexer_tokens, tokens, ret, ast, panic>>

\* main: let ast = parser.parse(); a caller may call parse() again
parse_call ==
    /\ pc \in {"ready", "returned"}
    /\ calls < MaxParseCalls
    /\ calls' = calls + 1
    /\ pc' = "parse"
    /\ stack' = <<Frame("parse", 36)>>
    /\ UNCHANGED <<input, lexer_position, lexer_tokens, tokens, parser_position,
                   ret, ast, panic>>

\* Parser::parse, the loop test: another statement
parse_loop ==
    /\ At("parse", 36)
    /\ InRange
    /\ current_token.token_type # "EOF"
    /\ stack' = Append(SetTop([Top EXCEPT !.line = 37, !.wait = TRUE]),
                       Frame("parse_statement", 43))
    /\ UNCHANGED <<parser_position, ret, ast, pc, panic>>
    /\ Frozen

\* Parser::parse, stmts.push(..) of the statement parsed
parse_push ==
    /\ Resumed("parse", 37)
    /\ stack' = SetTop([Top EXCEPT !.stmts = Append(@, ret), !.line = 36, !.wait = FALSE])
    /\ UNCHANGED <<parser_position, ret, ast, pc, panic>>
    /\ Frozen

\* Parser::parse, the loop ends at EOF: stmts goes to the caller
parse_return ==
    /\ At("parse", 36)
    /\ InRange
    /\ current_token.token_type = "EOF"
    /\ stack' = Pop
    /\ ast' = Top.stmts
    /\ pc' = "returned"
    /\ UNCHANGED <<parser_position, ret, panic>>
    /\ Frozen

\* Parser::parse_statement, the match
parse_statement_function ==
    /\ At("parse_statement", 43)
    /\ InRange
    /\ IsKeyword(current_token, kw_function)
    /\ stack' = Append(SetTop([Top EXCEPT !.line = 44, !.wait = TRUE]),
                       Frame("parse_function_declaration", 52))
    /\ UNCHANGED <<parser_position, ret, ast, pc, panic>>
    /\ Frozen

parse_statement_if ==
    /\ At("parse_statement", 43)
    /\ InRange
    /\ IsKeyword(current_token, kw_if)
    /\ stack' = Append(SetTop([Top EXCEPT !.line = 45, !.wait = TRUE]),
                       Frame("parse_if_statement", 77))
    /\ UNCHANGED <<parser_position, ret, ast, pc, panic>>
    /\ Frozen

parse_statement_assignment ==
    /\ At("parse_statement", 43)
    /\ InRange
    /\ current_token.token_type = "Identifier"
    /\ stack' = Append(SetTop([Top EXCEPT !.line = 46, !.wait = TRUE]),
                       Frame("parse_assignment", 88))
    /\ UNCHANGED <<parser_position, ret, ast, pc, panic>>
    /\ Frozen

\* a last arm that takes the token before it panics
parse_statement_panic_consumes ==
    /\ At("parse_statement", 43)
    /\ InRange
    /\ ~IsKeyword(current_token, kw_function)
    /\ ~IsKeyword(current_token, kw_if)
    /\ current_token.token_type # "Identifier"
    /\ PanicWith(UnexpectedToken("parse_statement"))
    /\ parser_position' = consume_token.position
    /\ Frozen

\* the arm _ => panic!
parse_statement_panic ==
    /\ At("parse_statement", 43)
    /\ InRange
    /\ ~IsKeyword(current_token, kw_function)
    /\ ~IsKeyword(current_token, kw_if)
    /\ current_token.token_type # "Identifier"
    /\ PanicWith(UnexpectedToken("parse_statement"))
    /\ UNCHANGED parser_position
    /\ Frozen

\* Parser::parse_statement returns what the rule it called returned
parse_statement_return ==
    /\ \/ Resumed("parse_statement", 44)
       \/ Resumed("parse_statement", 45)
       \/ Resumed("parse_statement", 46)
    /\ Return(ret)
    /\ UNCHANGED parser_position
    /\ Frozen

\* Parser::parse_function_declaration
parse_function_declaration_52 ==
    /\ At("parse_function_declaration", 52)
    /\ ConsumeGoto(53)
    /\ Frozen

\* let name = self.consume_token().value;
parse_function_declaration_53 ==
    /\ At("parse_function_declaration", 53)
    /\ InRange
    /\ parser_position' = consume_token.position
    /\ stack' = SetTop([Top EXCEPT !.name = consume_token.token.value, !.line = 54])
    /\ UNCHANGED <<ret, ast, pc, panic>>
    /\ Frozen

parse_function_declaration_54 ==
    /\ At("parse_function_declaration", 54)
    /\ ConsumeGoto(55)
    /\ Frozen

\* let params = self.parse_parameter_list();
parse_function_declaration_55 ==
    /\ At("parse_function_declaration", 55)
    /\ Call("parse_parameter_list", 65)
    /\ Frozen

parse_function_declaration_55_resume ==
    /\ Resumed("parse_function_declaration", 55)
    /\ stack' = SetTop([Top EXCEPT !.params = ret, !.line = 56, !.wait = FALSE])
    /\ UNCHANGED <<parser_position, ret, ast, pc, panic>>
    /\ Frozen

parse_function_declaration_56 ==
    /\ At("parse_function_declaration", 56)
    /\ ConsumeGoto(57)
    /\ Frozen

parse_function_declaration_57 ==
    /\ At("parse_function_declaration", 57)
    /\ ConsumeGoto(58)
    /\ Frozen

\* let body = self.parse_statement_list();
parse_function_declaration_58 ==
    /\ At("parse_function_declaration", 58)
    /\ Call("parse_statement_list", 1)
    /\ Frozen

parse_function_declaration_58_resume ==
    /\ Resumed("parse_function_declaration", 58)
    /\ stack' = SetTop([Top EXCEPT !.stmts = ret, !.line = 59, !.wait = FALSE])
    /\ UNCHANGED <<parser_position, ret, ast, pc, panic>>
    /\ Frozen

\* self.consume_token(); Stmt::FunctionDeclaration(name, params, body)
parse_function_declaration_59 ==
    /\ At("parse_function_declaration", 59)
    /\ InRange
    /\ parser_position' = consume_token.position
    /\ Return(FunctionDeclaration(Top.name, Top.params, Top.stmts))
    /\ Frozen

\* Parser::parse_parameter_list, the loop test: the token is not ')'
parse_parameter_list_loop ==
    /\ At("parse_parameter_list", 65)
    /\ InRange
    /\ current_token.token_type # "Delimiter" \/ current_token.value # <<")">>
    /\ Goto(66)
    /\ UNCHANGED <<parser_position, ret, ast, pc, panic>>
    /\ Frozen

\* the loop ends at ')': params
parse_parameter_list_return ==
    /\ At("parse_parameter_list", 65)
    /\ InRange
    /\ ~(current_token.token_type # "Delimiter" \/ current_token.value # <<")">>)
    /\ Return(Top.params)
    /\ UNCHANGED parser_position
    /\ Frozen

\* if the token is an Identifier: params.push(self.consume_token().value)
parse_parameter_list_66_identifier ==
    /\ At("parse_parameter_list", 66)
    /\ InRange
    /\ current_token.token_type = "Identifier"
    /\ parser_position' = consume_token.position
    /\ stack' = SetTop([Top EXCEPT !.params = Append(@, consume_token.token.value),
                                   !.line = 69])
    /\ UNCHANGED <<ret, ast, pc, panic>>
    /\ Frozen

parse_parameter_list_66_other ==
    /\ At("parse_parameter_list", 66)
    /\ InRange
    /\ current_token.token_type # "Identifier"
    /\ Goto(69)
    /\ UNCHANGED <<parser_position, ret, ast, pc, panic>>
    /\ Frozen

\* a second test that consumes whatever token is not ','
parse_parameter_list_69_other_consumes ==
    /\ At("parse_parameter_list", 69)
    /\ InRange
    /\ ~(current_token.token_type = "Delimiter" /\ current_token.value = <<",">>)
    /\ ~IsDelimiter(current_token, ")")
    /\ ConsumeGoto(65)
    /\ Frozen

\* if the token is ',': self.consume_token()
parse_parameter_list_69_comma ==
    /\ At("parse_parameter_list", 69)
    /\ InRange
    /\ current_token.token_type = "Delimiter" /\ current_token.value = <<",">>
    /\ ConsumeGoto(65)
    /\ Frozen

parse_parameter_list_69_other ==
    /\ At("parse_parameter_list", 69)
    /\ InRange
    /\ ~(current_token.token_type = "Delimiter" /\ current_token.value = <<",">>)
    /\ Goto(65)
    /\ UNCHANGED <<parser_position, ret, ast, pc, panic>>
    /\ Frozen

\* Parser::parse_statement_list: the statements up to, not including, '}'
parse_statement_list_loop ==
    /\ At("parse_statement_list", 1)
    /\ InRange
    /\ ~IsDelimiter(current_token, "}")
    /\ stack' = Append(SetTop([Top EXCEPT !.line = 2, !.wait = TRUE]),
                       Frame("parse_statement", 43))
    /\ UNCHANGED <<parser_position, ret, ast, pc, panic>>
    /\ Frozen

parse_statement_list_push ==
    /\ Resumed("parse_statement_list", 2)
    /\ stack' = SetTop([Top EXCEPT !.stmts = Append(@, ret), !.line = 1, !.wait = FALSE])
    /\ UNCHANGED <<parser_position, ret, ast, pc, panic>>
    /\ Frozen

parse_statement_list_return ==
    /\ At("parse_statement_list", 1)
    /\ InRange
    /\ IsDelimiter(current_token, "}")
    /\ Return(Top.stmts)
    /\ UNCHANGED parser_position
    /\ Frozen

\* Parser::parse_if_statement
parse_if_statement_77 ==
    /\ At("parse_if_statement", 77)
    /\ ConsumeGoto(78)
    /\ Frozen

parse_if_statement_78 ==
    /\ At("parse_if_statement", 78)
    /\ ConsumeGoto(79)
    /\ Frozen

\* let condition = self.parse_expression();
parse_if_statement_79 ==
    /\ At("parse_if_statement", 79)
    /\ Call("parse_expression", 96)
    /\ Frozen

parse_if_statement_79_resume ==
    /\ Resumed("parse_if_statement", 79)
    /\ stack' = SetTop([Top EXCEPT !.expr = ret, !.line = 80, !.wait = FALSE])
    /\ UNCHANGED <<parser_position, ret, ast, pc, panic>>
    /\ Frozen

parse_if_statement_80 ==
    /\ At("parse_if_statement", 80)
    /\ ConsumeGoto(81)
    /\ Frozen

parse_if_statement_81 ==
    /\ At("parse_if_statement", 81)
    /\ ConsumeGoto(82)
    /\ Frozen

\* let body = self.parse_statement_list();
parse_if_statement_82 ==
    /\ At("parse_if_statement", 82)
    /\ Call("parse_statement_list", 1)
    /\ Frozen

parse_if_statement_82_resume ==
    /\ Resumed("parse_if_statement", 82)
    /\ stack' = SetTop([Top EXCEPT !.stmts = ret, !.line = 83, !.wait = FALSE])
    /\ UNCHANGED <<parser_position, ret, ast, pc, panic>>
    /\ Frozen

\* self.consume_token(); Stmt::If(Box::new(condition), body)
parse_if_statement_83 ==
    /\ At("parse_if_statement", 83)
    /\ InRange
    /\ parser_position' = consume_token.position
    /\ Return(If(Top.expr, Top.stmts))
    /\ Frozen

\* Parser::parse_assignment: let var_name = self.consume_token().value;
parse_assignment_88 ==
    /\ At("parse_assignment", 88)
    /\ InRange
    /\ parser_position' = consume_token.position
    /\ stack' = SetTop([Top EXCEPT !.name = consume_token.token.value, !.line = 89])
    /\ UNCHANGED <<ret, ast, pc, panic>>
    /\ Frozen

\* a second statement that insists on an Operator where '=' is expected
parse_assignment_89_checks ==
    /\ At("parse_assignment", 89)
    /\ InRange
    /\ IF current_token.token_type = "Operator"
       THEN /\ parser_position' = consume_token.position
            /\ Goto(90)
            /\ UNCHANGED <<ret, ast, pc, panic>>
       ELSE /\ PanicWith(UnexpectedToken("parse_assignment"))
            /\ UNCHANGED parser_position
    /\ Frozen

\* self.consume_token(); // '='
parse_assignment_89 ==
    /\ At("parse_assignment", 89)
    /\ ConsumeGoto(90)
    /\ Frozen

\* let value = self.parse_expression();
parse_assignment_90 ==
    /\ At("parse_assignment", 90)
    /\ Call("parse_expression", 96)
    /\ Frozen

parse_assignment_90_resume ==
    /\ Resumed("parse_assignment", 90)
    /\ stack' = SetTop([Top EXCEPT !.expr = ret, !.line = 91, !.wait = FALSE])
    /\ UNCHANGED <<parser_position, ret, ast, pc, panic>>
    /\ Frozen

\* self.consume_token(); Stmt::Assignment(var_name, value)
parse_assignment_91 ==
    /\ At("parse_assignment", 91)
    /\ InRange
    /\ parser_position' = consume_token.position
    /\ Return(Assignment(Top.name, Top.expr))
    /\ Frozen

\* Parser::parse_expression: let left = self.parse_term();
parse_expression_96 ==
    /\ At("parse_expression", 96)
    /\ Call("parse_term", 107)
    /\ Frozen

parse_expression_96_resume ==
    /\ Resumed("parse_expression", 96)
    /\ stack' = SetTop([Top EXCEPT !.expr = ret, !.line = 97, !.wait = FALSE])
    /\ UNCHANGED <<parser_position, ret, ast, pc, panic>>
    /\ Frozen

\* the token is an Operator: let op = self.consume_token().value;
parse_expression_97_operator ==
    /\ At("parse_expression", 97)
    /\ InRange
    /\ current_token.token_type = "Operator"
    /\ parser_position' = consume_token.position
    /\ stack' = SetTop([Top EXCEPT !.op = consume_token.token.value, !.line = 99])
    /\ UNCHANGED <<ret, ast, pc, panic>>
    /\ Frozen

\* else: left
parse_expression_97_else ==
    /\ At("parse_expression", 97)
    /\ InRange
    /\ current_token.token_type # "Operator"
    /\ Return(Top.expr)
    /\ UNCHANGED parser_position
    /\ Frozen

\* a right-hand side that is one term only
parse_expression_99_term ==
    /\ At("parse_expression", 99)
    /\ Call("parse_term", 107)
    /\ Frozen

\* let right = self.parse_expression();
parse_expression_99 ==
    /\ At("parse_expression", 99)
    /\ Call("parse_expression", 96)
    /\ Frozen

\* Expr::Binary(Box::new(left), op, Box::new(right))
parse_expression_99_resume ==
    /\ Resumed("parse_expression", 99)
    /\ Return(Binary(Top.expr, Top.op, ret))
    /\ UNCHANGED parser_position
    /\ Frozen

\* Parser::parse_term, a Number whose text parses
parse_term_number ==
    /\ At("parse_term", 107)
    /\ InRange
    /\ current_token.token_type = "Number"
    /\ parse_i32(consume_token.token.value).ok
    /\ parser_position' = consume_token.position
    /\ Return(NumberLiteral(parse_i32(consume_token.token.value).value))
    /\ Frozen

\* a Number whose text does not parse: unwrap() panics, the token consumed
parse_term_number_panic ==
    /\ At("parse_term", 107)
    /\ InRange
    /\ current_token.token_type = "Number"
    /\ ~parse_i32(consume_token.token.value).ok
    /\ parser_position' = consume_token.position
    /\ PanicWith(Panic("parse_term", "ParseIntError PosOverflow", "", current_token))
    /\ Frozen

parse_term_identifier ==
    /\ At("parse_term", 107)
    /\ InRange
    /\ current_token.token_type = "Identifier"
    /\ parser_position' = consume_token.position
    /\ Return(Variable(consume_token.token.value))
    /\ Frozen

\* Delimiter "(": self.consume_token();
parse_term_paren ==
    /\ At("parse_term", 107)
    /\ InRange
    /\ IsDelimiter(current_token, "(")
    /\ ConsumeGoto(118)
    /\ Frozen

parse_term_panic ==
    /\ At("parse_term", 107)
    /\ InRange
    /\ current_token.token_type \notin {"Number", "Identifier"}
    /\ ~IsDelimiter(current_token, "(")
    /\ PanicWith(UnexpectedToken("parse_term"))
    /\ UNCHANGED parser_position
    /\ Frozen

\* let expr = self.parse_expression();
parse_term_118 ==
    /\ At("parse_term", 118)
    /\ Call("parse_expression", 96)
    /\ Frozen

parse_term_118_resume ==
    /\ Resumed("parse_term", 118)
    /\ stack' = SetTop([Top EXCEPT !.expr = ret, !.line = 119, !.wait = FALSE])
    /\ UNCHANGED <<parser_position, ret, ast, pc, panic>>
    /\ Frozen

\* self.consume_token(); expr
parse_term_119 ==
    /\ At("parse_term", 119)
    /\ InRange
    /\ parser_position' = consume_token.position
    /\ Return(Top.expr)
    /\ Frozen

\* the lines at which a method calls another and reads no token
CallLines == {55, 58, 79, 82, 90, 96, 99, 118}

\* a read past the end that ends the parse quietly
current_token_out_of_bounds_returns ==
    /\ pc = "parse"
    /\ stack # <<>>
    /\ ~Top.wait
    /\ Top.line \notin CallLines
    /\ ~InRange
    /\ pc' = "returned"
    /\ stack' = <<>>
    /\ UNCHANGED <<parser_position, ret, ast, panic>>
    /\ Frozen

\* &self.tokens[self.position] with the position past the end: the index
\* panics, whichever method reads the current token
current_token_out_of_bounds ==
    /\ pc = "parse"
    /\ stack # <<>>
    /\ ~Top.wait
    /\ Top.line \notin CallLines
    /\ ~InRange
    /\ PanicWith(Panic("current_token", "index out of bounds", "", NoToken))
    /\ UNCHANGED parser_position
    /\ Frozen

Parse ==
    \/ parse_call
    \/ parse_loop
    \/ parse_push
    \/ parse_return
    \/ parse_statement_function
    \/ parse_statement_if
    \/ parse_statement_assignment
    \/ parse_statement_panic
    \/ parse_statement_return
    \/ parse_function_declaration_52
    \/ parse_function_declaration_53
    \/ parse_function_declaration_54
    \/ parse_function_declaration_55
    \/ parse_function_declaration_55_resume
    \/ parse_function_declaration_56
    \/ parse_function_declaration_57
    \/ parse_function_declaration_58
    \/ parse_function_declaration_58_resume
    \/ parse_function_declaration_59
    \/ parse_parameter_list_loop
    \/ parse_parameter_list_return
    \/ parse_parameter_list_66_identifier
    \/ parse_parameter_list_66_other
    \/ parse_parameter_list_69_comma
    \/ parse_parameter_list_69_other
    \/ parse_statement_list_loop
    \/ parse_statement_list_push
    \/ parse_statement_list_return
    \/ parse_if_statement_77
    \/ parse_if_statement_78
    \/ parse_if_statement_79
    \/ parse_if_statement_79_resume
    \/ parse_if_statement_80
    \/ parse_if_statement_81
    \/ parse_if_statement_82
    \/ parse_if_statement_82_resume
    \/ parse_if_statement_83
    \/ parse_assignment_88
    \/ parse_assignment_89
    \/ parse_assignment_90
    \/ parse_assignment_90_resume
    \/ parse_assignment_91
    \/ parse_expression_96
    \/ parse_expression_96_resume
    \/ parse_expression_97_operator
    \/ parse_expression_97_else
    \/ parse_expression_99
    \/ parse_expression_99_resume
    \/ parse_term_number
    \/ parse_term_number_panic
    \/ parse_term_identifier
    \/ parse_term_paren
    \/ parse_term_panic
    \/ parse_term_118
    \/ parse_term_118_resume
    \/ parse_term_119
    \/ current_token_out_of_bounds

Next == Tokenize \/ Parse

Spec == Init /\ [][Next]_vars

\* the runs on the longer programs
ProgramInit == Init /\ input \in Programs

\* the program runs on: a step that can be taken is taken
FairSpec == ProgramInit /\ [][Next]_vars /\ WF_vars(Next)

\* the programs and the shorter generated texts
ShortTexts == ChunkTexts(MaxChunks - 1) \cup Programs

\* the runs on these texts
ShortInit == input \in ShortTexts /\ Init

\* these runs, going on while a step can be taken
FairShortSpec == ShortInit /\ [][Next]_vars /\ WF_vars(Next)

-----------------------------------------------------------------------------
(* Properties. *)

\* Lexer::tokenize has returned its vector to Parser::new
TokenizeReturned ==
    \/ pc \in {"ready", "parse", "returned"}
    \/ pc = "panicked" /\ panic.fn # "tokenize"

\* the run is over: parse() returned, or a panic ended it
Terminated == pc \in {"returned", "panicked"}

\* C1: for every source text, the run of Parser::new and parse() eventually
\* returns a statement sequence or halts with a panic; none runs forever.
C1_EventuallyReturnsOrPanics == <>Terminated

\* C2: whenever tokenize has returned, the token sequence is not empty, its
\* last token is EOF with empty text, and no earlier token is EOF.
C2_EndsWithOneEOF ==
    TokenizeReturned =>
        /\ tokens # <<>>
        /\ tokens[Len(tokens)] = Token("EOF", <<>>)
        /\ \A i \in 1..(Len(tokens) - 1) : tokens[i].token_type # "EOF"

\* tokenize returned on a text of several tokens
C2_Witness ==
    /\ pc = "ready"
    /\ Len(tokens) >= 3

\* C3: `x = 1+2+3;` tokenizes and parses to the one statement
\* Assignment("x", Binary(1, "+", Binary(2, "+", 3))).
C3_AssignSrcParsesRightNested ==
    (input = AssignSrc /\ Terminated) =>
        /\ pc = "returned"
        /\ ast = <<Assignment(<<"x">>,
                              Binary(NumberLiteral(1), <<"+">>,
                                     Binary(NumberLiteral(2), <<"+">>,
                                            NumberLiteral(3))))>>

\* C4: on the program of main the run halts with a panic raised in the
\* parser, after the tokenizer returned the whole token list, with the
\* cursor just past the Identifier applyBrakes and on the `(` after it.
C4_MainPanicsInParserAtCall ==
    (input = MainCode /\ Terminated) =>
        /\ pc = "panicked"
        /\ panic.fn # "tokenize"
        /\ TokenizeReturned
        /\ parser_position >= 1
        /\ InRange
        /\ tokens[parser_position] = Token("Identifier", id_applyBrakes)
        /\ current_token = Token("Delimiter", <<"(">>)

\* the characters a token or a skipped blank may start with
ClassifiedChars ==
    {" ", "\t", "\n"} \cup AsciiDigits \cup AsciiLetters
        \cup {"+", "-", "*", "/"} \cup {"(", ")", "{", "}", ",", ";"}

\* C5: when the character at the position where the next token would start
\* is none of the classified ones, the step taken is the panic naming that
\* character: no token sequence is returned and the tokens collected so
\* far are dropped.
C5_UnclassifiedCharPanics ==
    [][(pc = "tokenize" /\ lexer_position < ByteLen(input)
            /\ next_char(input, lexer_position) \notin ClassifiedChars)
        => /\ pc' = "panicked"
           /\ panic'.fn = "tokenize"
           /\ panic'.msg = "Unexpected character"
           /\ panic'.ch = next_char(input, lexer_position)
           /\ lexer_tokens' = <<>>
           /\ tokens' = <<>>]_vars

\* a$b has panicked on `$`
C5_Witness ==
    /\ input = DollarSrc
    /\ pc = "panicked"
    /\ panic.ch = "$"
    /\ lexer_position = 1
    /\ tokens = <<>>

\* C6: the parser's cursor never decreases from one step to the next and
\* never exceeds the length of the token sequence.
C6_CursorMonotoneInRange ==
    [][/\ parser_position' >= parser_position
       /\ parser_position' <= Len(tokens')]_vars

\* a parse that returned statements with the cursor moved onto EOF
C6_Witness ==
    /\ pc = "returned"
    /\ ast # <<>>
    /\ parser_position > 0
    /\ parser_position = Len(tokens) - 1

\* the characters i..j of s are a maximal run of alphanumeric characters
MaximalAlnumRun(s, i, j) ==
    /\ i <= j
    /\ j <= Len(s)
    /\ \A k \in i..j : is_alphanumeric(s[k])
    /\ j = Len(s) \/ ~is_alphanumeric(s[j + 1])

\* C7: at an ASCII letter the tokenizer pushes one token whose text is the
\* whole maximal run of alphanumeric characters from there, a Keyword if
\* and only if that text is exactly `function` or `if`, else an
\* Identifier, and goes on after the run.
C7_KeywordIffExactWord ==
    [][(pc = "tokenize" /\ lexer_position < ByteLen(input)
            /\ next_char(input, lexer_position) \in AsciiLetters)
        => \E j \in 1..Len(input) :
              LET i == CharIndexAt(input, lexer_position)
                  run == SubSeq(input, i, j)
              IN  /\ MaximalAlnumRun(input, i, j)
                  /\ lexer_tokens' = Append(lexer_tokens,
                        Token(IF run = <<"f", "u", "n", "c", "t", "i", "o", "n">>
                                    \/ run = <<"i", "f">>
                              THEN "Keyword" ELSE "Identifier", run))
                  /\ lexer_position' = ByteLenTo(input, j)
                  /\ pc' = "tokenize"]_vars

\* functionX came out as one Identifier
C7_Witness ==
    /\ input = FunctionXSrc
    /\ tokens = <<Token("Identifier", FunctionXSrc), EOFToken>>

IsBlank(c) == c \in {" ", "\t", "\n"}

\* the indices of s that stay when every run of blanks between two other
\* characters shrinks to its first blank and the runs at the ends go
CanonIndices(s) ==
    {i \in 1..Len(s) :
        \/ ~IsBlank(s[i])
        \/ /\ i > 1
           /\ ~IsBlank(s[i - 1])
           /\ \E j \in (i + 1)..Len(s) : ~IsBlank(s[j])}

\* s with every run of blanks between two other characters replaced by one
\* space, and the blanks at both ends removed
WsCanon(s) ==
    LET K == CanonIndices(s)
        nth(k) == CHOOSE i \in K : Cardinality({j \in K : j <= i}) = k
    IN  [k \in 1..Cardinality(K) |->
            IF IsBlank(s[nth(k)]) THEN " " ELSE s[nth(k)]]

\* C8: two texts that differ only in the lengths or kinds of their runs of
\* blanks, or in blanks at the ends, tokenize alike: the run on a text
\* ends as tokenize does on the text with its blanks normalised, with the
\* same tokens or with a panic.
C8_WhitespaceTransparent ==
    /\ pc = "ready" =>
          /\ tokenize(WsCanon(input)).ok
          /\ tokens = tokenize(WsCanon(input)).tokens
    /\ (pc = "panicked" /\ panic.fn = "tokenize") => ~tokenize(WsCanon(input)).ok

\* a text with a tab, not in normal form, was tokenized into several tokens
C8_Witness ==
    /\ pc = "ready"
    /\ input # WsCanon(input)
    /\ \E i \in 1..Len(input) : input[i] = TAB
    /\ Len(tokens) >= 3

\* C9: a text that is one non-empty run of ASCII digits tokenizes to
\* exactly the Number token of the whole run and EOF.
C9_DigitRunIsOneNumber ==
    (/\ input # <<>>
     /\ \A i \in 1..Len(input) : input[i] \in AsciiDigits
     /\ pc # "tokenize")
        => tokens = <<Token("Number", input), Token("EOF", <<>>)>>

\* 1234567890 was tokenized
C9_Witness ==
    /\ input = DigitsSrc
    /\ pc = "ready"
    /\ tokens = <<Token("Number", DigitsSrc), EOFToken>>

\* a character no rule of the tokenizer takes, wherever it stands
NeverClassified(c) == c \notin ClassifiedChars /\ ~is_alphanumeric(c)

\* the parser has done nothing yet
ParserUntouched ==
    /\ parser_position = 0
    /\ stack = <<>>
    /\ calls = 0
    /\ ast = <<>>
    /\ ret = <<>>

\* C10: the parser takes no step before the tokenizer has scanned the whole
\* text and returned; and when the text holds a character no rule takes,
\* the run panics in the tokenizer, inside Parser::new: the cursor never
\* moves, nothing is parsed or returned, and the parser gets no tokens.
C10_TokenizeCompletesFirst ==
    /\ ~ParserUntouched => (TokenizeReturned /\ lexer_position = ByteLen(input))
    /\ (\E i \in 1..Len(input) : NeverClassified(input[i])) =>
          /\ pc \in {"tokenize", "panicked"}
          /\ pc = "panicked" => panic.fn = "tokenize"
          /\ ParserUntouched
          /\ tokens = <<>>

\* `x + 1; y + 2; $` panicked at the `$`, the parser untouched
C10_Witness ==
    /\ input = LateDollarSrc
    /\ pc = "panicked"
    /\ panic.fn = "tokenize"
    /\ panic.ch = "$"
    /\ lexer_position = ByteLen(input) - 1
    /\ ParserUntouched

\* the run is inside Parser::parse_parameter_list itself
InParameterList ==
    pc = "parse" /\ stack # <<>> /\ Top.fn = "parse_parameter_list"

\* the current token is one the loop of parse_parameter_list has no branch
\* for: no Identifier, no ',' and not the ')' that ends the loop
StrayParameterToken ==
    /\ InRange
    /\ current_token.token_type # "Identifier"
    /\ ~IsDelimiter(current_token, ",")
    /\ ~IsDelimiter(current_token, ")")

\* the line after `line` in an iteration of the loop that takes no branch
NextLoopLine(line) ==
    CASE line = 65 -> 66 [] line = 66 -> 69 [] line = 69 -> 65

\* C11: in the loop of parse_parameter_list on a token that is no
\* Identifier, no ',' and no ')', every step goes on to the next test of
\* the same iteration (65 -> 66 -> 69 -> 65) and leaves the cursor and the
\* collected parameters as they are: the run stays in the loop on the same
\* token, and neither returns nor panics.
C11_StrayTokenLoopsInPlace ==
    [][(InParameterList /\ StrayParameterToken)
        => /\ pc' = "parse"
           /\ panic' = panic
           /\ parser_position' = parser_position
           /\ Len(stack') = Len(stack)
           /\ stack'[Len(stack')].fn = "parse_parameter_list"
           /\ stack'[Len(stack')].params = Top.params
           /\ stack'[Len(stack')].line = NextLoopLine(Top.line)
           /\ InParameterList'
           /\ StrayParameterToken']_vars

\* the loop is at its last test on the EOF after `function f(`
C11_Witness ==
    /\ input = StrayEOFSrc
    /\ InParameterList
    /\ Top.line = 69
    /\ current_token = EOFToken
    /\ Top.params = <<>>

\* the current token starts no statement
StartsNoStatement ==
    /\ InRange
    /\ ~IsKeyword(current_token, kw_function)
    /\ ~IsKeyword(current_token, kw_if)
    /\ current_token.token_type # "Identifier"

\* the step enters parse_statement on the current token, the cursor unmoved
EntersParseStatement ==
    /\ pc' = "parse"
    /\ Len(stack') = Len(stack) + 1
    /\ stack'[Len(stack')].fn = "parse_statement"
    /\ stack'[Len(stack')].line = 43
    /\ parser_position' = parser_position

\* C12: a token that is no Keyword function, no Keyword if and no
\* Identifier, where a statement starts, ends the parse in the panic of
\* parse_statement with the cursor where it was and no statement returned.
\* The loop of parse() at top level hands every such token but EOF to
\* parse_statement (a stray '}' included), and the statement list of a
\* block hands it every such token but '}' (EOF included).
C12_NoStatementStartPanics ==
    [][/\ (At("parse_statement", 43) /\ StartsNoStatement)
            => /\ pc' = "panicked"
               /\ panic' = Panic("parse_statement", "Unexpected token", "", current_token)
               /\ parser_position' = parser_position
               /\ stack' = <<>>
               /\ ast = <<>> /\ ast' = <<>>
       /\ (At("parse", 36) /\ StartsNoStatement /\ current_token.token_type # "EOF")
            => EntersParseStatement
       /\ (At("parse_statement_list", 1) /\ StartsNoStatement
                /\ ~IsDelimiter(current_token, "}"))
            => EntersParseStatement]_vars

\* `function f() { x + 1;` panicked in parse_statement on the EOF inside the
\* block, the cursor still on it
C12_Witness ==
    /\ input = UnclosedFunctionSrc
    /\ pc = "panicked"
    /\ panic = Panic("parse_statement", "Unexpected token", "", EOFToken)
    /\ parser_position = Len(tokens) - 1
    /\ ast = <<>>

\* the top frame after the step
TopNext == stack'[Len(stack')]

\* the steps of parse_assignment that consume the token after the name and
\* the token after the value: whatever the token is, the cursor moves by
\* one, and the node returned is made of the name and the value alone
AssignmentStepsLenient ==
    /\ (At("parse_assignment", 89) /\ InRange)
         => /\ parser_position' = parser_position + 1
            /\ pc' = "parse"
            /\ Len(stack') = Len(stack)
            /\ TopNext = [Top EXCEPT !.line = 90]
    /\ (At("parse_assignment", 91) /\ InRange)
         => /\ current_token.token_type # "Operator"
            /\ parser_position' = parser_position + 1
            /\ pc' = "parse"
            /\ stack' = Pop
            /\ ret' = Assignment(Top.name, Top.expr)

\* x T 1+2 U, for every T and U tried: the first parse() returns the one
\* statement Assignment("x", Binary(1, "+", 2)), the cursor one past U
AssignmentVariantsAgree ==
    (input \in AssignVariants /\ Terminated /\ calls = 1)
        => /\ pc = "returned"
           /\ ast = <<Assignment(<<"x">>,
                                 Binary(NumberLiteral(1), <<"+">>, NumberLiteral(2)))>>
           /\ Len(tokens) = 7
           /\ parser_position = 6

\* C13: parse_assignment consumes the token after the name and the token
\* after the value expression whatever they are: on Identifier n, T, the
\* tokens of an expression, U it returns Assignment(n, value) with the
\* cursor one past U, the same node for every T and U.
C13_AssignmentIgnoresTAndU ==
    /\ []AssignmentVariantsAgree
    /\ [][AssignmentStepsLenient]_vars

\* `x ( 1+2 function` was parsed as the assignment of 1+2 to x
C13_Witness ==
    /\ input = AssignVariantSrc(<<"(">>, kw_function)
    /\ pc = "returned"
    /\ calls = 1
    /\ parser_position = 6
    /\ ast = <<Assignment(<<"x">>,
                          Binary(NumberLiteral(1), <<"+">>, NumberLiteral(2)))>>

\* the node of an operand of a chain
Leaf(t) == IF t = <<"1">> THEN NumberLiteral(1) ELSE Variable(t)

RECURSIVE RightNested(_, _)
\* Binary(t_i, op_i, Binary(t_(i+1), op_(i+1), ... t_n))
RightNested(ch, i) ==
    IF i = Len(ch.terms) THEN Leaf(ch.terms[i])
    ELSE Binary(Leaf(ch.terms[i]), <<ch.ops[i]>>, RightNested(ch, i + 1))

\* the first parse() is over
FirstParseOver == Terminated /\ calls = 1

\* C14: on t1 op1 t2 ... tn, operands Numbers or Identifiers and any
\* operators, parse_expression returns the fully right-nested tree and
\* consumes exactly the 2n-1 tokens (the statement `x , t1 ... tn;` leaves
\* the cursor on EOF, 2n+2 tokens on); 1*2+3 groups as 1*(2+3); only
\* parentheses change the grouping: (1+2)+3 groups to the left.
C14_ExpressionRightNested ==
    /\ (FirstParseOver /\ input \in ChainSrcs) =>
          \A ch \in Chains :
              input = ChainSrc(ch) =>
                  /\ pc = "returned"
                  /\ ast = <<Assignment(<<"x">>, RightNested(ch, 1))>>
                  /\ parser_position = 2 * Len(ch.terms) + 2
                  /\ Len(tokens) = 2 * Len(ch.terms) + 3
    /\ (FirstParseOver /\ input = NoPrecedenceSrc) =>
          /\ pc = "returned"
          /\ ast = <<Assignment(<<"x">>,
                       Binary(NumberLiteral(1), <<"*">>,
                              Binary(NumberLiteral(2), <<"+">>, NumberLiteral(3))))>>
    /\ (FirstParseOver /\ input = ParenSrc) =>
          /\ pc = "returned"
          /\ ast = <<Assignment(<<"x">>,
                       Binary(Binary(NumberLiteral(1), <<"+">>, NumberLiteral(2)),
                              <<"+">>, NumberLiteral(3)))>>

\* `x , a*1-a;` was parsed to a * (1 - a)
C14_Witness ==
    /\ input = <<"x", SPACE, ",", SPACE, "a", "*", "1", "-", "a", ";">>
    /\ pc = "returned"
    /\ calls = 1
    /\ ast = <<Assignment(<<"x">>,
                 Binary(Variable(<<"a">>), <<"*">>,
                        Binary(NumberLiteral(1), <<"-">>, Variable(<<"a">>))))>>
    /\ parser_position = 8

\* a step of the loop of tokenize that does not panic
TokenizeIteration == pc = "tokenize" /\ pc' = "tokenize"

\* C15: the tokenizer's cursor never moves backward, moves forward on every
\* iteration of the loop that does not panic, and stays within the text;
\* so tokenize ends on every text, and when it returns the cursor is the
\* length of the text.
C15_LexerCursorAdvances ==
    /\ [][/\ lexer_position' >= lexer_position
          /\ TokenizeIteration => lexer_position' > lexer_position]_vars
    /\ [](lexer_position <= ByteLen(input))
    /\ [](TokenizeReturned => lexer_position = ByteLen(input))
    /\ <>(pc # "tokenize")

\* tokenize returned at the end of a text with a character of two bytes
C15_Witness ==
    /\ input = AccentSrc
    /\ pc = "ready"
    /\ Len(tokens) = 5
    /\ lexer_position = ByteLen(input)
    /\ lexer_position = Len(input) + 1

\* a text of digits without its leading zeros
StripZeros(text) ==
    LET nz == {i \in 1..Len(text) : text[i] # "0"}
    IN  IF nz = {} THEN <<>>
        ELSE SubSeq(text, CHOOSE i \in nz : \A j \in nz : i <= j, Len(text))

\* digit texts of the same length: a denotes at most what b denotes
DigitsLeq(a, b) ==
    \/ a = b
    \/ \E k \in 1..Len(a) :
          /\ SubSeq(a, 1, k - 1) = SubSeq(b, 1, k - 1)
          /\ DigitValue(a[k]) < DigitValue(b[k])

\* the digits of 2147483647
I32MaxDigits == <<"2", "1", "4", "7", "4", "8", "3", "6", "4", "7">>

\* the number the text denotes is at most 2147483647
FitsI32(text) ==
    LET t == StripZeros(text)
    IN  \/ Len(t) < Len(I32MaxDigits)
        \/ Len(t) = Len(I32MaxDigits) /\ DigitsLeq(t, I32MaxDigits)

RECURSIVE DecimalValue(_)
\* the number a text of decimal digits denotes, leading zeros or not
DecimalValue(text) ==
    IF text = <<>> THEN 0
    ELSE 10 * DecimalValue(SubSeq(text, 1, Len(text) - 1))
            + DigitValue(text[Len(text)])

\* C16: parse_term on a Number token takes the token and returns
\* NumberLiteral(v), v the decimal value of its text, when v is at most
\* 2147483647; when v is greater the step is a panic, and no literal with a
\* wrapped, cut or saturated value is returned.
C16_NumberLiteralOrPanic ==
    [][(At("parse_term", 107) /\ InRange /\ current_token.token_type = "Number")
        => IF FitsI32(current_token.value)
           THEN /\ pc' = "parse"
                /\ stack' = Pop
                /\ ret' = NumberLiteral(DecimalValue(current_token.value))
                /\ parser_position' = parser_position + 1
           ELSE /\ pc' = "panicked"
                /\ panic'.fn = "parse_term"
                /\ ret' = ret
                /\ ast' = <<>>]_vars

\* `x + 0002147483647;` was parsed to the literal 2147483647
C16_Witness ==
    /\ input = ZerosMaxSrc
    /\ pc = "returned"
    /\ calls = 1
    /\ ast = <<Assignment(<<"x">>, NumberLiteral(2147483647))>>

\* the cursor is past the last token: EOF has been consumed
EOFConsumed == TokenizeReturned /\ parser_position >= Len(tokens)

\* C17: parse() has returned only with the cursor on the final EOF token,
\* at index Len(tokens) - 1; once a consume_token has taken the EOF the
\* cursor stays past the end, parse() does not return, and the run ends in
\* the panic of the read of the current token.
C17_ReturnsOnlyOnEOF ==
    /\ [](pc = "returned" =>
            /\ parser_position = Len(tokens) - 1
            /\ current_token = EOFToken)
    /\ [][EOFConsumed =>
            /\ EOFConsumed'
            /\ pc' # "returned"
            /\ pc' = "panicked" => panic'.fn = "current_token"]_vars
    /\ (EOFConsumed ~> (pc = "panicked" /\ panic.fn = "current_token"))

\* `x + 1` took the EOF where ';' was expected and panicked on the next read
C17_Witness ==
    /\ input = NoSemicolonSrc
    /\ pc = "panicked"
    /\ panic.fn = "current_token"
    /\ parser_position = Len(tokens)
    /\ ast = <<>>

\* the texts of the tokens, one after the other
TokenTexts(toks) ==
    LET cat[k \in 0..Len(toks)] ==
            IF k = 0 THEN <<>> ELSE cat[k - 1] \o toks[k].value
    IN  cat[Len(toks)]

\* the text without its spaces, tabs and newlines
WithoutBlanks(s) == SelectSeq(s, LAMBDA c : ~IsBlank(c))

\* C18: whenever tokenize has returned, the texts of the tokens in order,
\* put together, are the source text with every space, tab and newline
\* removed: no character is dropped, doubled or moved.
C18_TokensSpellTheText ==
    TokenizeReturned => TokenTexts(tokens) = WithoutBlanks(input)

\* the nested program was tokenized: many tokens, blanks in between
C18_Witness ==
    /\ input = NestedSrc
    /\ pc = "ready"
    /\ Len(tokens) > 20
    /\ Len(WithoutBlanks(input)) < Len(input)
    /\ TokenTexts(tokens) = WithoutBlanks(input)

\* a call of parse() after the first one returned
LaterCall == calls >= 2

\* C19: a call of parse() on a Parser whose parse() has returned does not
\* parse again: it calls no rule, raises no panic, leaves the cursor and
\* the tokens as they were, and returns the empty statement sequence.
C19_SecondParseReturnsEmpty ==
    /\ [](LaterCall =>
            /\ pc \in {"parse", "returned"}
            /\ pc = "parse" => stack = <<Frame("parse", 36)>>
            /\ pc = "returned" => ast = <<>>
            /\ parser_position = Len(tokens) - 1)
    /\ [][LaterCall' =>
            /\ parser_position' = parser_position
            /\ tokens' = tokens]_vars

\* the second parse() of the nested program returned nothing
C19_Witness ==
    /\ input = NestedSrc
    /\ calls = 2
    /\ pc = "returned"
    /\ ast = <<>>
    /\ parser_position = Len(tokens) - 1
    /\ Len(tokens) > 20

=============================================================================
